---------------------------- MODULE Spec2Model ----------------------------
(***************************************************************************)
(* A model of job_aggregator.py: the recency filter (is_recent), the       *)
(* aggregation loop (search_jobs), the similarity ranking                  *)
(* (find_similar_jobs) and the resume matcher (match_jobs_to_resume).      *)
(*                                                                         *)
(* Python values are represented as follows.                               *)
(*   str            a sequence of one-character strings                    *)
(*   None / value   an optional: << >> is None, << v >> is the value v     *)
(*   list           a sequence                                             *)
(*   dict (a job)   a record                                               *)
(*   datetime       a record [y, m, d, sec] (sec = seconds since midnight) *)
(***************************************************************************)
EXTENDS Integers, Sequences, FiniteSets, TLC

VARIABLES
    \* ---- search_jobs ----
    pc,            \* position in search_jobs: "board", "iter", "done" ("idle" elsewhere)
    board,         \* index into job_boards of the board being processed
    count,         \* the local `count`
    job_details,   \* the local `job_details` (None before the first scrape)
    aggregated,    \* the list aggregated_jobs
    returned,      \* the value returned by search_jobs (None until it returns)
    days,          \* the argument days_threshold
    now,           \* the wall clock read by datetime.now()
    budget,        \* URLs the provider may still hand out in this run (model bound)
    consumed,      \* history: URLs taken from the provider for the current board
    queried,       \* history: boards whose query was issued
    excepted,      \* history: the except clause has just run for the previous board
    \* ---- is_recent (called on its own) ----
    r_pc, r_str, r_off, r_result,
    \* ---- the ranking operations ----
    rank_pc,       \* "start", then "similar" or "matched" ("idle" elsewhere)
    job_list,      \* the list of job dicts passed to the ranking operation
    f_ref,         \* find_similar_jobs: the argument reference_job
    f_thr,         \* find_similar_jobs: the argument threshold, in hundredths
    f_result,      \* find_similar_jobs: the list returned
    m_resume,      \* match_jobs_to_resume: the file behind resume_file
    m_result       \* match_jobs_to_resume: the list returned

searchVars == << pc, board, count, job_details, aggregated, returned, days,
                 now, budget, consumed, queried, excepted >>
recentVars == << r_pc, r_str, r_off, r_result >>
rankVars == << rank_pc, job_list, f_ref, f_thr, f_result, m_resume, m_result >>
vars == << searchVars, recentVars, rankVars >>

None == << >>
Some(v) == << v >>

-----------------------------------------------------------------------------
(* Strings                                                                 *)

DigitValue == [c \in {"0", "1", "2", "3", "4", "5", "6", "7", "8", "9"} |->
                 CASE c = "0" -> 0 [] c = "1" -> 1 [] c = "2" -> 2 [] c = "3" -> 3
                   [] c = "4" -> 4 [] c = "5" -> 5 [] c = "6" -> 6 [] c = "7" -> 7
                   [] c = "8" -> 8 [] c = "9" -> 9]

IsDigit(c) == c \in DOMAIN DigitValue

AllDigits(s) == \A i \in 1..Len(s) : IsDigit(s[i])

RECURSIVE NumberOf(_)
NumberOf(s) == IF s = << >> THEN 0
               ELSE 10 * NumberOf(SubSeq(s, 1, Len(s) - 1)) + DigitValue[s[Len(s)]]

\* s[:n]
Prefix(s, n) == SubSeq(s, 1, IF Len(s) < n THEN Len(s) ELSE n)

\* Positions of "-" in s.
Dashes(s) == {i \in 1..Len(s) : s[i] = "-"}

-----------------------------------------------------------------------------
(* Calendar arithmetic of datetime                                         *)

IsLeap(y) == y % 4 = 0 /\ (y % 100 # 0 \/ y % 400 = 0)

DaysInMonth(y, m) ==
    IF m = 2 THEN (IF IsLeap(y) THEN 29 ELSE 28)
    ELSE IF m \in {4, 6, 9, 11} THEN 30 ELSE 31

RECURSIVE DaysBeforeMonth(_, _)
DaysBeforeMonth(y, m) ==
    IF m = 1 THEN 0 ELSE DaysBeforeMonth(y, m - 1) + DaysInMonth(y, m - 1)

DaysBeforeYear(y) ==
    LET p == y - 1 IN p * 365 + (p \div 4) - (p \div 100) + (p \div 400)

\* The proleptic Gregorian ordinal of a date (1 is 0001-01-01).
ToOrdinal(y, m, d) == DaysBeforeYear(y) + DaysBeforeMonth(y, m) + d

SecondsPerDay == 86400

\* a - b for two datetimes, in seconds.
DatetimeDiff(a, b) ==
    (ToOrdinal(a.y, a.m, a.d) - ToOrdinal(b.y, b.m, b.d)) * SecondsPerDay
        + (a.sec - b.sec)

-----------------------------------------------------------------------------
(* is_recent                                                               *)

\* datetime.strptime(s, "%Y-%m-%d"): None when it raises ValueError.
\* %Y is four digits; %m is 1[0-2], 0[1-9] or [1-9]; %d is 3[01], [12]\d,
\* 0[1-9], [1-9] or a space and [1-9]; nothing may remain unconverted; the
\* date must exist (year >= 1, day <= days in the month).
Strptime(s) ==
    LET ds == Dashes(s) IN
    IF Cardinality(ds) # 2 THEN None
    ELSE
      LET p1 == CHOOSE i \in ds : \A j \in ds : i <= j
          p2 == CHOOSE i \in ds : \A j \in ds : j <= i
          ys == SubSeq(s, 1, p1 - 1)
          ms == SubSeq(s, p1 + 1, p2 - 1)
          dr == SubSeq(s, p2 + 1, Len(s))
          dd == IF Len(dr) = 2 /\ dr[1] = " " THEN SubSeq(dr, 2, 2) ELSE dr
          wellFormed ==
              /\ Len(ys) = 4 /\ AllDigits(ys)
              /\ Len(ms) \in {1, 2} /\ AllDigits(ms)
              /\ Len(dd) \in {1, 2} /\ AllDigits(dd)
      IN
      IF ~wellFormed THEN None
      ELSE
        LET y == NumberOf(ys)
            m == NumberOf(ms)
            d == NumberOf(dd)
        IN
        IF /\ y >= 1
           /\ m \in 1..12
           /\ d >= 1 /\ d <= DaysInMonth(y, m)
        THEN Some([y |-> y, m |-> m, d |-> d, sec |-> 0])
        ELSE None

is_recent_inclusive(post_date_str, days_threshold, clock) ==
    LET post_date == Strptime(Prefix(post_date_str, 10)) IN
    IF post_date = None THEN FALSE
    ELSE DatetimeDiff(clock, post_date[1]) <= days_threshold * SecondsPerDay

\* is_recent(post_date_str, days_threshold), with the clock it reads.
is_recent(post_date_str, days_threshold, clock) ==
    LET post_date == Strptime(Prefix(post_date_str, 10)) IN
    IF post_date = None THEN FALSE
    ELSE DatetimeDiff(clock, post_date[1]) < days_threshold * SecondsPerDay


-----------------------------------------------------------------------------
(* search_jobs                                                             *)

job_boards == << "greenhouse.io", "jobs.lever.co", "boards.greenhouse.io",
                 "job-boards.greenhouse.io", "jobs.jobvite.com" >>

Boards == 1..Len(job_boards)

\* `if count >= 5: break`
MaxResultsPerBoard == 5

\* Bound: the number of URLs the search provider hands out over one run.
MaxUrls == 6

\* The clock during a run of search_jobs: 2024-01-10 12:00:00.
SearchNow == [y |-> 2024, m |-> 1, d |-> 10, sec |-> 43200]

\* The values of days_threshold tried.
SearchDays == {0, 1}

StrEmpty == << >>
StrStale == << "2", "0", "2", "4", "-", "0", "1", "-", "0", "1" >>
StrToday == << "2", "0", "2", "4", "-", "0", "1", "-", "1", "0",
               "T", "0", "8", ":", "0", "0" >>
StrJunk == << "n", "o", "t", "-", "a", "-", "d", "a", "t", "e" >>

\* The pages behind the URLs the provider may return, by the value
\* extract_job_details puts under "date" (line 61): None when the page has
\* no <time datetime=...>, else the attribute's text, which may be empty.
\* The same URL may come back for two boards, or twice for one.
PageDate == [u \in {"a", "b", "c", "d", "e"} |->
               CASE u = "a" -> None
                 [] u = "b" -> Some(StrEmpty)
                 [] u = "c" -> Some(StrToday)
                 [] u = "d" -> Some(StrStale)
                 [] u = "e" -> Some(StrJunk)]

Urls == DOMAIN PageDate

\* extract_job_details(url): None when the fetch fails, else the job dict.
\* Only "url" and "date" are read by search_jobs; the other keys ride along.
extract_job_details(url) ==
    {None, Some([url |-> url, date |-> PageDate[url]])}

\* Python truthiness of job_details.get("date"): None and "" are falsy.
DateTruthy(job) == job.date # None /\ job.date[1] # << >>

AdmitOnlyDated(job, days_threshold, clock) ==
    DateTruthy(job) /\ is_recent(job.date[1], days_threshold, clock)

\* The condition guarding aggregated_jobs.append(job_details).
Admit(job, days_threshold, clock) ==
    \/ (DateTruthy(job) /\ is_recent(job.date[1], days_threshold, clock))
    \/ ~DateTruthy(job)

CapReachedLate(c) == c > MaxResultsPerBoard

\* `if count >= 5: break`
CapReached(c) == c >= MaxResultsPerBoard

idleRecent == /\ r_pc = "idle" /\ r_str = << >> /\ r_off = None /\ r_result = None
idleRank == /\ rank_pc = "idle" /\ job_list = << >>
            /\ f_ref = None /\ f_thr = 0 /\ f_result = None
            /\ m_resume = None /\ m_result = None

SearchInit ==
    /\ pc = "board" /\ board = 1 /\ count = 0 /\ job_details = None
    /\ aggregated = << >> /\ returned = None
    /\ days \in SearchDays /\ now = SearchNow
    /\ budget = MaxUrls
    /\ consumed = 0
    /\ queried = {} /\ excepted = FALSE
    /\ idleRecent /\ idleRank

\* Lines 126-131: the next board's query is built and search(query) starts.
StartBoard ==
    /\ pc = "board" /\ board <= Len(job_boards)
    /\ count' = 0 /\ consumed' = 0
    /\ queried' = queried \cup {board}
    /\ excepted' = FALSE
    /\ pc' = "iter"
    /\ UNCHANGED << board, job_details, aggregated, returned, days, now,
                    budget >>

\* Lines 131-142: the provider yields a URL and the loop body runs.
Iterate ==
    /\ pc = "iter" /\ budget > 0
    /\ \E url \in Urls : \E jd \in extract_job_details(url) :
          /\ job_details' = jd
          /\ aggregated' = IF jd # None /\ Admit(jd[1], days, now)
                           THEN Append(aggregated, jd[1])
                           ELSE aggregated
    /\ count' = count + 1
    /\ consumed' = consumed + 1
    /\ budget' = budget - 1
    /\ IF CapReached(count + 1)
       THEN pc' = "board" /\ board' = board + 1
       ELSE pc' = "iter" /\ board' = board
    /\ UNCHANGED << returned, days, now, queried, excepted >>

\* Line 131: the provider's sequence is exhausted, the for loop ends.
Exhausted ==
    /\ pc = "iter"
    /\ pc' = "board" /\ board' = board + 1
    /\ UNCHANGED << count, job_details, aggregated, returned, days, now,
                    budget, consumed, queried, excepted >>

BoardFailsAborts ==
    /\ pc = "iter"
    /\ excepted' = TRUE
    /\ pc' = "done" /\ returned' = Some(aggregated)
    /\ UNCHANGED << board, count, job_details, aggregated, days, now, budget,
                    consumed, queried >>

\* Lines 143-144: search() or a later step of the try block raises; the
\* except clause logs it and the outer loop goes on to the next board.
BoardFails ==
    /\ pc = "iter"
    /\ excepted' = TRUE
    /\ pc' = "board" /\ board' = board + 1
    /\ UNCHANGED << count, job_details, aggregated, returned, days, now,
                    budget, consumed, queried >>

\* Line 146: return aggregated_jobs.
Finish ==
    /\ pc = "board" /\ board > Len(job_boards)
    /\ pc' = "done" /\ returned' = Some(aggregated)
    /\ UNCHANGED << board, count, job_details, aggregated, days, now, budget,
                    consumed, queried, excepted >>

SearchNext ==
    /\ (StartBoard \/ Iterate \/ Exhausted \/ BoardFails \/ Finish)
    /\ UNCHANGED << recentVars, rankVars >>

\* search_jobs is a sequential loop: a step that can be taken is taken.
SearchSpec == SearchInit /\ [][SearchNext]_vars /\ WF_vars(SearchNext)

-----------------------------------------------------------------------------
(* Properties of search_jobs                                               *)

IsPrefix(a, b) == Len(a) <= Len(b) /\ SubSeq(b, 1, Len(a)) = a

\* A step of the loop body: one more URL was taken from the provider.
LoopStep == consumed' = consumed + 1

\* C1 (as amended): in every pass of the loop, the scraped record is
\* appended to aggregated_jobs if and only if the scrape returned a record
\* and its date is None, or the empty string, or a string for which
\* is_recent holds; otherwise aggregated_jobs is left as it was.  A record
\* with a non-empty date for which is_recent is false is never appended, and
\* a null scrape result is never appended.
C1_AdmitPolicy ==
    [][LoopStep =>
         LET jd == job_details' IN
         IF /\ jd # None
            /\ \/ jd[1].date = None
               \/ jd[1].date = Some(StrEmpty)
               \/ is_recent(jd[1].date[1], days, now)
         THEN aggregated' = Append(aggregated, jd[1])
         ELSE aggregated' = aggregated]_vars

\* C1 witness: a record whose date is the empty string was scraped and is
\* the posting just appended.
C1_Witness ==
    /\ job_details # None
    /\ job_details[1].date = Some(StrEmpty)
    /\ aggregated # << >>
    /\ aggregated[Len(aggregated)] = job_details[1]

\* C1 as originally stated: with "has a date" read as "the date is not
\* null", a record is appended iff (hasDate and is_recent) or not hasDate,
\* so a record whose date is present but unparsable is never appended.
C1_Original ==
    [][LoopStep =>
         LET jd == job_details' IN
         IF /\ jd # None
            /\ \/ jd[1].date = None
               \/ (jd[1].date # None /\ is_recent(jd[1].date[1], days, now))
         THEN aggregated' = Append(aggregated, jd[1])
         ELSE aggregated' = aggregated]_vars

\* C2: a failure while querying or iterating a board leaves aggregated_jobs
\* as it is and moves on to the next board without returning; postings are
\* never removed from aggregated_jobs; and once a board has failed the run
\* still reaches its return, with every board queried and the whole of
\* aggregated_jobs returned.
C2_FailureContained ==
    /\ [][(excepted' /\ ~excepted) =>
            /\ aggregated' = aggregated
            /\ pc' = "board" /\ board' = board + 1
            /\ returned' = None]_vars
    /\ [][IsPrefix(aggregated, aggregated')]_vars
    /\ [](pc = "done" => (queried = Boards /\ returned = Some(aggregated)))
    /\ (excepted ~> (pc = "done" /\ queried = Boards))

\* C2 witness: a board has just failed after it had appended a posting in
\* its last pass, earlier boards had contributed postings too, and boards
\* remain to be queried.
C2_Witness ==
    /\ pc = "board" /\ excepted
    /\ board <= Len(job_boards)
    /\ consumed > 0
    /\ job_details # None
    /\ aggregated # << >>
    /\ aggregated[Len(aggregated)] = job_details[1]
    /\ Len(aggregated) > consumed

\* C3: for every board at most 5 URLs are taken from the provider, each
\* counted whether its scrape failed, was rejected or was admitted; a pass
\* of the loop appends at most one posting and nothing else appends, so no
\* board adds more than 5 postings; and the run reaches its return.
C3_CapPerBoard ==
    /\ [](consumed <= 5 /\ count = consumed)
    /\ [][Len(aggregated') <= Len(aggregated) + (IF LoopStep THEN 1 ELSE 0)]_vars
    /\ <>(pc = "done")

\* C3 witness: the loop was left by the break after 5 URLs, the last of
\* which failed to scrape, while the provider could still hand out more.
C3_Witness ==
    /\ pc = "board" /\ ~excepted
    /\ consumed = 5 /\ budget > 0
    /\ job_details = None

\* C4: the aggregate returned by search_jobs never holds two postings with
\* the same url.
C4_UniqueUrls ==
    pc = "done" =>
        \A i, j \in 1..Len(returned[1]) :
            i # j => returned[1][i].url # returned[1][j].url

-----------------------------------------------------------------------------
(* is_recent called on its own                                             *)

\* Date strings tried, each with the number of days from 2024-01-01 to the
\* date strptime reads from its first 10 characters (None: it raises).
DateSamples == <<
    [str |-> << "2", "0", "2", "4", "-", "0", "1", "-", "0", "1" >>,
     off |-> Some(0)],
    [str |-> << "2", "0", "2", "4", "-", "0", "1", "-", "0", "1", "T", "2", "3", ":", "5", "9", ":", "5", "9", "Z" >>,
     off |-> Some(0)],
    [str |-> << "2", "0", "2", "4", "-", "0", "1", "-", "0", "2" >>,
     off |-> Some(1)],
    [str |-> << "2", "0", "2", "4", "-", "0", "1", "-", "0", "3", " ", "1", "0", ":", "0", "0" >>,
     off |-> Some(2)],
    [str |-> << "2", "0", "2", "4", "-", "0", "1", "-", "0", "5" >>,
     off |-> Some(4)],
    [str |-> << "2", "0", "2", "3", "-", "1", "2", "-", "3", "1" >>,
     off |-> Some(-1)],
    [str |-> << "2", "0", "2", "4", "-", "0", "2", "-", "2", "9" >>,
     off |-> Some(59)],
    [str |-> << "2", "0", "2", "4", "-", "0", "3", "-", "0", "1" >>,
     off |-> Some(60)],
    [str |-> << "2", "0", "2", "3", "-", "0", "3", "-", "0", "1" >>,
     off |-> Some(-306)],
    [str |-> << "2", "0", "2", "4", "-", "1", "-", "5" >>,
     off |-> Some(4)],
    [str |-> << "2", "0", "2", "4", "-", "0", "1", "-", "0", "1", "1" >>,
     off |-> Some(0)],
    [str |-> << "n", "o", "t", "-", "a", "-", "d", "a", "t", "e" >>,
     off |-> None],
    [str |-> << "2", "0", "2", "3", "-", "0", "2", "-", "2", "9" >>,
     off |-> None],
    [str |-> << "2", "0", "2", "4", "-", "1", "3", "-", "0", "1" >>,
     off |-> None],
    [str |-> << "2", "0", "2", "4", "-", "0", "1", "-", "1", "T", "0", "0", ":", "0", "0" >>,
     off |-> None],
    [str |-> << "0", "1", "/", "0", "1", "/", "2", "0", "2", "4" >>,
     off |-> None],
    [str |-> << >>,
     off |-> None] >>

\* Clock readings tried, each with the number of days from 2024-01-01 to
\* its date.
ClockSamples == <<
    [dt |-> [y |-> 2024, m |-> 1, d |-> 1, sec |-> 0], off |-> 0],
    [dt |-> [y |-> 2024, m |-> 1, d |-> 2, sec |-> 0], off |-> 1],
    [dt |-> [y |-> 2024, m |-> 1, d |-> 2, sec |-> 36000], off |-> 1],
    [dt |-> [y |-> 2024, m |-> 1, d |-> 2, sec |-> 86399], off |-> 1],
    [dt |-> [y |-> 2024, m |-> 1, d |-> 3, sec |-> 0], off |-> 2],
    [dt |-> [y |-> 2024, m |-> 1, d |-> 3, sec |-> 1], off |-> 2],
    [dt |-> [y |-> 2024, m |-> 1, d |-> 5, sec |-> 0], off |-> 4],
    [dt |-> [y |-> 2024, m |-> 3, d |-> 1, sec |-> 43200], off |-> 60],
    [dt |-> [y |-> 2023, m |-> 12, d |-> 31, sec |-> 100], off |-> -1] >>

\* The values of days_threshold tried.
RecentDays == {-1, 0, 1, 2, 3, 60, 61}

idleSearch ==
    /\ pc = "idle" /\ board = 0 /\ count = 0 /\ job_details = None
    /\ aggregated = << >> /\ returned = None
    /\ budget = 0 /\ consumed = 0 /\ queried = {} /\ excepted = FALSE

RecentInit ==
    /\ r_pc = "call" /\ r_result = None
    /\ days \in RecentDays
    /\ \E i \in DOMAIN DateSamples : \E j \in DOMAIN ClockSamples :
          /\ r_str = DateSamples[i].str
          /\ now = ClockSamples[j].dt
          /\ r_off = [str |-> DateSamples[i].str,
                      date |-> DateSamples[i].off,
                      clock |-> ClockSamples[j].off]
    /\ idleSearch /\ idleRank

\* Lines 68-80: one call of is_recent(r_str, days).
IsRecentCall ==
    /\ r_pc = "call"
    /\ r_result' = Some(is_recent(r_str, days, now))
    /\ r_pc' = "done"
    /\ UNCHANGED << r_str, r_off, days, now >>

RecentNext ==
    /\ IsRecentCall
    /\ UNCHANGED << pc, board, count, job_details, aggregated, returned,
                    budget, consumed, queried, excepted >>
    /\ UNCHANGED rankVars

RecentSpec == RecentInit /\ [][RecentNext]_vars

Str_2024_01_01 == DateSamples[1].str

\* C10: for a date string whose first 10 characters parse, is_recent is true
\* exactly when the time from midnight of that date to the clock reading is
\* strictly less than days_threshold days, so a posting exactly
\* days_threshold days old is excluded; is_recent("2024-01-01", 2) is true
\* on 2024-01-02 and false on 2024-01-05; characters after the 10th do not
\* matter; and the date string passed in is left as it was.
C10_StrictWindow ==
    r_pc = "done" =>
        /\ r_off.date # None =>
              r_result = Some((r_off.clock - r_off.date[1]) * 86400 + now.sec
                                 < days * 86400)
        /\ (r_str = Str_2024_01_01 /\ days = 2 /\ r_off.clock = 1) =>
              r_result = Some(TRUE)
        /\ (r_str = Str_2024_01_01 /\ days = 2 /\ r_off.clock = 4) =>
              r_result = Some(FALSE)
        /\ (Len(r_str) > 10 /\ r_off.date # None) =>
              r_result = Some(is_recent(SubSeq(r_str, 1, 10), days, now))
        /\ r_str = r_off.str

\* C10 witness: the posting is exactly days_threshold (2) days old, to the
\* second, and is_recent has returned false.
C10_Witness ==
    /\ r_pc = "done"
    /\ r_off.date # None
    /\ days = 2
    /\ r_off.clock - r_off.date[1] = 2 /\ now.sec = 0
    /\ r_result = Some(FALSE)

-----------------------------------------------------------------------------
(* Text and the NLP model                                                  *)
(* A text is a sequence of words; a run of whitespace is the word " " and  *)
(* a newline the word "\n".                                                *)

Whitespace == {" ", "\n"}

\* str.strip()
RECURSIVE LStrip(_)
LStrip(t) == IF t # << >> /\ Head(t) \in Whitespace THEN LStrip(Tail(t)) ELSE t

RECURSIVE RStrip(_)
RStrip(t) == IF t # << >> /\ t[Len(t)] \in Whitespace
             THEN RStrip(SubSeq(t, 1, Len(t) - 1)) ELSE t

Strip(t) == RStrip(LStrip(t))

\* What the spaCy pipeline says of each word: lemma_, pos_, is_stop, is_alpha.
Tok(l, p, st, al) == [lemma |-> l, pos |-> p, is_stop |-> st, is_alpha |-> al]

Lexicon ==
    [w \in {"Python", "python", "engineers", "engineer", "backend",
            "frontend", "designer", "the", "other", "builds", "3", "C++",
            " ", "\n"} |->
       CASE w = "Python" -> Tok("Python", "PROPN", FALSE, TRUE)
         [] w = "python" -> Tok("python", "NOUN", FALSE, TRUE)
         [] w = "engineers" -> Tok("engineer", "NOUN", FALSE, TRUE)
         [] w = "engineer" -> Tok("engineer", "NOUN", FALSE, TRUE)
         [] w = "backend" -> Tok("backend", "ADJ", FALSE, TRUE)
         [] w = "frontend" -> Tok("frontend", "ADJ", FALSE, TRUE)
         [] w = "designer" -> Tok("designer", "NOUN", FALSE, TRUE)
         [] w = "the" -> Tok("the", "DET", TRUE, TRUE)
         [] w = "other" -> Tok("other", "ADJ", TRUE, TRUE)
         [] w = "builds" -> Tok("build", "VERB", FALSE, TRUE)
         [] w = "3" -> Tok("3", "NUM", FALSE, FALSE)
         [] w = "C++" -> Tok("C++", "PROPN", FALSE, FALSE)
         [] w = " " -> Tok(" ", "SPACE", FALSE, FALSE)
         [] w = "\n" -> Tok("\n", "SPACE", FALSE, FALSE)]

\* nlp(text): the Doc, a sequence of tokens.
nlp(text) == [i \in 1..Len(text) |-> Lexicon[text[i]]]

\* str.lower() on a lemma.
Lower(l) == IF l = "Python" THEN "python" ELSE l

\* extract_keywords(text)
extract_keywords(text) ==
    LET doc == nlp(text) IN
    {Lower(doc[i].lemma) :
        i \in {k \in 1..Len(doc) :
                 /\ doc[k].pos \in {"NOUN", "PROPN", "ADJ"}
                 /\ ~doc[k].is_stop /\ doc[k].is_alpha}}

\* The texts tried as descriptions and as resume pages.
TxtEmpty == << >>
TxtBlank == << " " >>
TxtNoKeywords == << "the", "other", "builds", "3", "C++" >>
TxtBackend == << "Python", "backend", "engineers" >>
TxtFrontend == << " ", "python", "frontend", "engineer", "the" >>
TxtDesigner == << "designer", "\n" >>

\* similarity_score_spacy(text1, text2), in hundredths: what the model's
\* vectors give for the texts tried (symmetric; 0 when a text has no vector).
similarity_score_spacy(text1, text2) ==
    LET pair == {text1, text2}
        plain == {TxtNoKeywords, TxtBackend, TxtFrontend, TxtDesigner}
    IN
    IF ~(pair \subseteq plain) THEN 0
    ELSE IF text1 = text2 THEN 100
    ELSE CASE pair = {TxtBackend, TxtFrontend} -> 80
           [] pair = {TxtBackend, TxtDesigner} -> 50
           [] pair = {TxtFrontend, TxtDesigner} -> 90
           [] pair = {TxtNoKeywords, TxtBackend} -> 80
           [] pair = {TxtNoKeywords, TxtFrontend} -> 30
           [] pair = {TxtNoKeywords, TxtDesigner} -> 90

-----------------------------------------------------------------------------
(* list.sort(key=..., reverse=True)                                        *)
(* Entries are records [item, key].                                        *)

InsertBeforeTies(sorted, e) ==
    LET smaller == {i \in 1..Len(sorted) : sorted[i].key <= e.key}
        at == IF smaller = {} THEN Len(sorted) + 1
              ELSE CHOOSE i \in smaller : \A j \in smaller : i <= j
    IN SubSeq(sorted, 1, at - 1) \o << e >> \o SubSeq(sorted, at, Len(sorted))

\* e goes after every entry whose key is not smaller: equal keys keep the
\* order in which they arrive.
InsertDescending(sorted, e) ==
    LET smaller == {i \in 1..Len(sorted) : sorted[i].key < e.key}
        at == IF smaller = {} THEN Len(sorted) + 1
              ELSE CHOOSE i \in smaller : \A j \in smaller : i <= j
    IN SubSeq(sorted, 1, at - 1) \o << e >> \o SubSeq(sorted, at, Len(sorted))

RECURSIVE SortDescending(_)
SortDescending(entries) ==
    IF entries = << >> THEN << >>
    ELSE InsertDescending(SortDescending(SubSeq(entries, 1, Len(entries) - 1)),
                          entries[Len(entries)])

Items(entries) == [i \in 1..Len(entries) |-> entries[i].item]

-----------------------------------------------------------------------------
(* find_similar_jobs                                                       *)

ScorePassesStrict(score, threshold) == score > threshold

\* `if score >= threshold`
ScorePasses(score, threshold) == score >= threshold

\* Lines 99-105: the loop that fills similar_jobs with (job, score) pairs.
RECURSIVE CollectSimilar(_, _, _)
CollectSimilar(reference_job, jl, threshold) ==
    IF jl = << >> THEN << >>
    ELSE
      LET job == Head(jl)
          rest == CollectSimilar(reference_job, Tail(jl), threshold)
          score == similarity_score_spacy(reference_job.description,
                                          job.description)
      IN
      IF job.url = reference_job.url THEN rest
      ELSE IF ScorePasses(score, threshold)
           THEN << << job, score >> >> \o rest
           ELSE rest

find_similar_jobs(reference_job, jl, threshold) ==
    LET similar_jobs == CollectSimilar(reference_job, jl, threshold)
        entries == [i \in 1..Len(similar_jobs) |->
                      [item |-> similar_jobs[i], key |-> similar_jobs[i][2]]]
    IN Items(SortDescending(entries))

-----------------------------------------------------------------------------
(* match_jobs_to_resume                                                    *)

\* A resume file: whether the path exists, whether it ends in .pdf, whether
\* opening it (or building the PdfReader) raises, and its pages; a page
\* either raises in extract_text() or gives a text.  A file that is not a
\* PDF has one page, its content.
Page(t) == [raises |-> FALSE, text |-> t]
BadPage == [raises |-> TRUE, text |-> << >>]
File(e, pdf, fails, pages) ==
    [exists |-> e, pdf |-> pdf, fails |-> fails, pages |-> pages]

\* Lines 157-160: the pages read until one raises.
RECURSIVE ReadPages(_, _)
ReadPages(pages, text) ==
    IF pages = << >> THEN text
    ELSE IF Head(pages).raises THEN text
    ELSE LET page_text == Head(pages).text IN
         ReadPages(Tail(pages),
                   IF page_text # << >> THEN text \o page_text \o << "\n" >>
                   ELSE text)

\* extract_text_from_pdf(pdf_path): the except clause keeps what was read.
extract_text_from_pdf(file) ==
    IF file.fails THEN << >> ELSE ReadPages(file.pages, << >>)

\* round(x, 2) of x = 100 * n / d, in hundredths: the nearest integer to
\* 10000 * n / d, ties to even.
Round2(n, d) ==
    LET q == (10000 * n) \div d
        r == (10000 * n) % d
    IN IF 2 * r < d THEN q
       ELSE IF 2 * r > d THEN q + 1
       ELSE IF q % 2 = 0 THEN q ELSE q + 1

MatchPercentageOverResume(resume_keywords, job_keywords) ==
    LET intersection == resume_keywords \cap job_keywords
    IN IF resume_keywords # {}
       THEN Round2(Cardinality(intersection), Cardinality(resume_keywords))
       ELSE 0

\* Lines 225-229: the rounded Jaccard percentage, in hundredths.
MatchPercentage(resume_keywords, job_keywords) ==
    LET intersection == resume_keywords \cap job_keywords
        union == resume_keywords \cup job_keywords
    IN IF union # {}
       THEN Round2(Cardinality(intersection), Cardinality(union))
       ELSE 0

ScorableAnyText(job) == Strip(job.description) # << >>

\* Lines 215-222: neither `continue` is taken.
Scorable(job) ==
    LET job_description == Strip(job.description) IN
    /\ job_description # << >>
    /\ extract_keywords(job_description) # {}

\* Lines 224-229: job["match_percentage"] = ... on the job dict itself.
Scored(job, resume_keywords) ==
    [url |-> job.url, description |-> job.description,
     match_percentage |->
         MatchPercentage(resume_keywords,
                         extract_keywords(Strip(job.description)))]

\* Lines 213-234: the job dicts after the loop, and the sorted matched_jobs.
MatchLoop(resume_keywords, jl) ==
    LET jobs == [i \in 1..Len(jl) |->
                   IF Scorable(jl[i]) THEN Scored(jl[i], resume_keywords)
                   ELSE jl[i]]
        matched_jobs == SelectSeq(jobs, LAMBDA j : "match_percentage" \in DOMAIN j)
        entries == [i \in 1..Len(matched_jobs) |->
                      [item |-> matched_jobs[i],
                       key |-> matched_jobs[i].match_percentage]]
    IN [jobs |-> jobs, result |-> Items(SortDescending(entries))]

\* The whole of match_jobs_to_resume: the job dicts afterwards and the
\* list returned.
match_jobs_to_resume(file, jl) ==
    LET empty == [jobs |-> jl, result |-> << >>] IN
    IF ~file.exists THEN empty
    ELSE IF ~file.pdf /\ file.fails THEN empty
    ELSE
      LET resume_text == IF file.pdf THEN extract_text_from_pdf(file)
                         ELSE file.pages[1].text
      IN
      IF Strip(resume_text) = << >> THEN empty
      ELSE
        LET resume_keywords == extract_keywords(resume_text) IN
        IF resume_keywords = {} THEN empty
        ELSE MatchLoop(resume_keywords, jl)

-----------------------------------------------------------------------------
(* The ranking operations on a list of jobs                                *)

\* Bound: the length of job_list.
MaxJobs == 3

Job(u, t) == [url |-> u, description |-> t]

\* The job dicts tried: two URLs with each scorable description, and a
\* third with the descriptions that cannot be scored.
JobPool ==
    {Job(u, t) : u \in {"a", "b"}, t \in {TxtBackend, TxtFrontend, TxtDesigner}}
        \cup {Job("c", t) : t \in {TxtEmpty, TxtBlank, TxtNoKeywords}}

\* The reference jobs tried: two that may be in job_list, one that is not.
RefPool == {Job("a", TxtBackend), Job("b", TxtFrontend), Job("z", TxtDesigner)}

\* The thresholds tried, in hundredths (0.8 is the default).
Thresholds == {80, 90}

\* The resume files tried.
ResumeFiles ==
    { File(FALSE, TRUE, FALSE, << >>),
      File(TRUE, FALSE, TRUE, << Page(TxtBackend) >>),
      File(TRUE, FALSE, FALSE, << Page(TxtBackend) >>),
      File(TRUE, FALSE, FALSE, << Page(TxtBlank) >>),
      File(TRUE, FALSE, FALSE, << Page(TxtNoKeywords) >>),
      File(TRUE, FALSE, FALSE, << Page(TxtEmpty) >>),
      File(TRUE, TRUE, TRUE, << Page(TxtBackend) >>),
      File(TRUE, TRUE, FALSE, << Page(TxtBackend) >>),
      File(TRUE, TRUE, FALSE, << Page(TxtFrontend), BadPage >>),
      File(TRUE, TRUE, FALSE, << BadPage, Page(TxtBackend) >>),
      File(TRUE, TRUE, FALSE, << Page(TxtEmpty), Page(TxtBlank) >>),
      File(TRUE, TRUE, FALSE, << Page(TxtBackend), Page(TxtDesigner) >>),
      File(TRUE, TRUE, FALSE, << >>) }

RankInit ==
    /\ rank_pc = "start"
    /\ job_list \in UNION {[1..n -> JobPool] : n \in 0..MaxJobs}
    /\ f_ref = None /\ f_thr = 0 /\ f_result = None
    /\ m_resume = None /\ m_result = None
    /\ days = 0 /\ now = SearchNow
    /\ idleSearch /\ idleRecent

\* Lines 93-108: one call of find_similar_jobs.
FindSimilar ==
    /\ rank_pc = "start"
    /\ \E reference_job \in RefPool : \E threshold \in Thresholds :
          /\ f_ref' = Some(reference_job)
          /\ f_thr' = threshold
          /\ f_result' = Some(find_similar_jobs(reference_job, job_list,
                                                threshold))
    /\ rank_pc' = "similar"
    /\ UNCHANGED << job_list, m_resume, m_result >>

\* Lines 181-234: one call of match_jobs_to_resume.
MatchJobs ==
    /\ rank_pc = "start"
    /\ \E file \in ResumeFiles :
          LET out == match_jobs_to_resume(file, job_list) IN
          /\ m_resume' = Some(file)
          /\ m_result' = Some(out.result)
          /\ job_list' = out.jobs
    /\ rank_pc' = "matched"
    /\ UNCHANGED << f_ref, f_thr, f_result >>

RankNext ==
    /\ (FindSimilar \/ MatchJobs)
    /\ UNCHANGED << searchVars, recentVars >>

RankSpec == RankInit /\ [][RankNext]_vars

-----------------------------------------------------------------------------
(* Properties of the ranking operations                                    *)

\* The number of positions of seq that satisfy Test.
CountIn(seq, Test(_)) == Cardinality({i \in 1..Len(seq) : Test(seq[i])})

NonIncreasing(keys) ==
    \A i, j \in 1..Len(keys) : i < j => keys[i] >= keys[j]

\* C6: both ranking operations return their results in non-increasing
\* order of score, and postings with equal score come in the order in which
\* they stand in job_list.
C6_StableDescending ==
    /\ rank_pc = "similar" =>
          LET ref == f_ref[1]
              res == f_result[1]
              Sim(job) == similarity_score_spacy(ref.description, job.description)
          IN
          /\ NonIncreasing([i \in 1..Len(res) |-> res[i][2]])
          /\ \A s \in {res[i][2] : i \in 1..Len(res)} :
                LET InRes(x) == x[2] = s
                    InList(job) == job.url # ref.url /\ Sim(job) = s
                    tied == SelectSeq(res, InRes)
                IN [i \in 1..Len(tied) |-> tied[i][1]]
                     = SelectSeq(job_list, InList)
    /\ rank_pc = "matched" =>
          LET res == m_result[1] IN
          /\ NonIncreasing([i \in 1..Len(res) |-> res[i].match_percentage])
          /\ \A s \in {res[i].match_percentage : i \in 1..Len(res)} :
                LET InRes(x) == x.match_percentage = s
                    InList(job) == /\ "match_percentage" \in DOMAIN job
                                   /\ job.match_percentage = s
                IN SelectSeq(res, InRes) = SelectSeq(job_list, InList)

\* C6 witness: find_similar_jobs returned two different postings with the
\* same score behind a posting that stood after them in job_list.
C6_Witness ==
    /\ rank_pc = "similar"
    /\ Len(f_result[1]) = 3
    /\ f_result[1][2][2] = f_result[1][3][2]
    /\ f_result[1][2][1] # f_result[1][3][1]
    /\ f_result[1][1][1] = job_list[3]
    /\ f_result[1][2][1] = job_list[1]

\* The text match_jobs_to_resume gets from the resume file.
ResumeText(file) ==
    IF file.pdf THEN extract_text_from_pdf(file) ELSE file.pages[1].text

\* Reading the file raised: on opening it, or on one of its pages.
ReadFailed(file) ==
    file.fails \/ \E i \in 1..Len(file.pages) : file.pages[i].raises

\* C7: match_jobs_to_resume returns an empty list and scores no posting
\* whenever the resume file does not exist or cannot be read, the extracted
\* text is empty or whitespace-only, or the resume yields no keywords.
C7_FailFast ==
    rank_pc = "matched" =>
        LET file == m_resume[1] IN
        (\/ ~file.exists
         \/ ReadFailed(file)
         \/ Strip(ResumeText(file)) = << >>
         \/ extract_keywords(ResumeText(file)) = {})
        => /\ m_result = Some(<< >>)
           /\ \A i \in 1..Len(job_list) :
                 "match_percentage" \notin DOMAIN job_list[i]

\* The conditions under which match_jobs_to_resume returns before scoring.
Aborted(file) ==
    \/ ~file.exists
    \/ ~file.pdf /\ file.fails
    \/ Strip(ResumeText(file)) = << >>
    \/ extract_keywords(ResumeText(file)) = {}

\* C8: when matching is not aborted, the result holds exactly the postings
\* of job_list whose description is non-empty once stripped and whose
\* keyword set is non-empty, each with a match_percentage; a posting with
\* an empty description or an empty keyword set is never in the result.
C8_OnlyScorablePostings ==
    (rank_pc = "matched" /\ ~Aborted(m_resume[1])) =>
        LET res == m_result[1]
            NonEmpty(job) ==
                /\ Strip(job.description) # << >>
                /\ extract_keywords(Strip(job.description)) # {}
        IN
        /\ \A i \in 1..Len(res) :
              /\ "match_percentage" \in DOMAIN res[i]
              /\ NonEmpty(res[i])
        /\ \A job \in JobPool :
              LET Same(x) == x.url = job.url /\ x.description = job.description
              IN CountIn(res, Same)
                   = (IF NonEmpty(job) THEN CountIn(job_list, Same) ELSE 0)

\* C8 witness: matching ran over a list with an empty description, a
\* description without keywords and a scorable one, and returned only the
\* last.
C8_Witness ==
    /\ rank_pc = "matched" /\ ~Aborted(m_resume[1])
    /\ Len(job_list) = 3 /\ Len(m_result[1]) = 1
    /\ \E i \in 1..3 : Strip(job_list[i].description) = << >>
    /\ \E i \in 1..3 : job_list[i].description = TxtNoKeywords

\* C9: every match_percentage is 100 * |R \cap P| / |R \cup P| rounded to 2
\* decimals (here in hundredths: within half a hundredth of the quotient),
\* for R the resume's keywords and P the posting's; it is 100 when R = P,
\* 0 when they are disjoint, 50 for R = {python, engineer, backend} and
\* P = {python, frontend, engineer}, it lies in [0, 100], and the union it
\* divides by is never empty.
C9_Jaccard ==
    rank_pc = "matched" =>
        \A i \in 1..Len(m_result[1]) :
            LET job == m_result[1][i]
                R == extract_keywords(ResumeText(m_resume[1]))
                P == extract_keywords(Strip(job.description))
                n == Cardinality(R \cap P)
                d == Cardinality(R \cup P)
                mp == job.match_percentage
            IN
            /\ R # {} /\ P # {} /\ d > 0
            /\ 2 * (mp * d - 10000 * n) <= d
            /\ 2 * (10000 * n - mp * d) <= d
            /\ mp >= 0 /\ mp <= 10000
            /\ R = P => mp = 10000
            /\ R \cap P = {} => mp = 0
            /\ (R = {"python", "engineer", "backend"}
                  /\ P = {"python", "frontend", "engineer"}) => mp = 5000

\* C9 witness: a posting with keywords {python, frontend, engineer} was
\* scored 50.00 against a resume with keywords {python, engineer, backend}.
C9_Witness ==
    /\ rank_pc = "matched"
    /\ extract_keywords(ResumeText(m_resume[1])) = {"python", "engineer", "backend"}
    /\ \E i \in 1..Len(m_result[1]) :
          /\ extract_keywords(Strip(m_result[1][i].description))
               = {"python", "frontend", "engineer"}
          /\ m_result[1][i].match_percentage = 5000

=============================================================================
